---- MODULE Spec2Model ----
(***************************************************************************)
(* Board-state engine of the Minesweeper game (logic/gameLogic.ts).        *)
(*                                                                         *)
(* A board is a sequence of rows, a row a sequence of cells, a cell the    *)
(* record [content, isRevealed, isFlagged].  The source addresses cells    *)
(* from 0; position (row, col) is grid[row + 1][col + 1] here.             *)
(* A board object is [ref, grid]: ref is the identity of the array, so     *)
(* that "returns the same reference" and "returns a copy" differ.          *)
(***************************************************************************)
EXTENDS Integers, Sequences, FiniteSets, TLC

\* ---------------------------------------------------------------- call record
\* op:    the last operation and its arguments
\* out:   what the examined call gave: a value, or an exception
\* (the state a function with memory between calls would be able to read)
VARIABLES op, out

\* ------------------------------------------------------------------ bounds
MaxRows == 3
MaxCols == 5
\* most cells of a constructed board
MaxCells == 6
\* longest position list handed to createBoardWithMines
MaxMines == 2
\* largest mineCount of a GameConfig handed to createBoard
MaxMineCount == 3
\* most flags standing on a board at once
MaxFlags == 1
\* most cells of a hand-built board (SpecAny)
MaxAnyCells == 3
\* most cells of the App's board (SpecApp)
MaxAppCells == 6
\* most cells of a board whose cells are objects in memory (SpecHeap)
MaxHeapCells == 2
\* most cells of a board whose mines are generated by a direct call
MaxGenCells == 9
\* most candidate positions handed to the shuffle when it is called directly
MaxShuffle == 5
\* longest position list handed to placeMines directly
MaxPlaced == 2

\* ------------------------------------------------------------------- types
\* CellContent = 'mine' | number: the mine marker is encoded as -1
MINE == -1

Pos(r, c) == [row |-> r, col |-> c]

createEmptyCell == [content |-> 0, isRevealed |-> FALSE, isFlagged |-> FALSE]

createEmptyBoard(rows, cols) == [r \in 1..rows |-> [c \in 1..cols |-> createEmptyCell]]

\* board.length and board[0].length, as every operation reads them
NumRows(grid) == Len(grid)
NumCols(grid) == IF Len(grid) = 0 THEN 0 ELSE Len(grid[1])

CellAt(grid, row, col) == grid[row + 1][col + 1]

\* board.map(row => row.map(cell => ({ ...cell }))): a new array, equal cells
CopyOf(board) == [ref |-> board.ref + 1, grid |-> board.grid]

\* ---------------------------------------------------------------- geometry
isValidPosition(row, col, rows, cols) ==
    row >= 0 /\ row < rows /\ col >= 0 /\ col < cols

\* mutant: the offsets listed column by column
directionsByColumn ==
    << <<-1, -1>>, <<0, -1>>, <<1, -1>>,
       <<-1, 0>>,             <<1, 0>>,
       <<-1, 1>>,  <<0, 1>>,  <<1, 1>> >>

directions ==
    << <<-1, -1>>, <<-1, 0>>, <<-1, 1>>,
       <<0, -1>>,             <<0, 1>>,
       <<1, -1>>,  <<1, 0>>,  <<1, 1>> >>

RECURSIVE NeighborsFrom(_, _, _, _, _)
NeighborsFrom(i, row, col, rows, cols) ==
    IF i > Len(directions) THEN << >>
    ELSE LET newRow == row + directions[i][1]
             newCol == col + directions[i][2]
         IN  IF isValidPosition(newRow, newCol, rows, cols)
             THEN <<Pos(newRow, newCol)>> \o NeighborsFrom(i + 1, row, col, rows, cols)
             ELSE NeighborsFrom(i + 1, row, col, rows, cols)

\* mutant: the loop starts at the second offset
getNeighborsSkipsFirst(row, col, rows, cols) == NeighborsFrom(2, row, col, rows, cols)

getNeighbors(row, col, rows, cols) == NeighborsFrom(1, row, col, rows, cols)

SeqToSet(s) == {s[i] : i \in 1..Len(s)}

\* ---------------------------------------------------------- mine placement
\* the Set<string> key `${row},${col}` of a position: the pair of its numbers
Key(row, col) == <<row, col>>

\* mutant: the safe zone holds the clicked cell only, not its neighbours
excludedSetOfClickOnly(rows, cols, excludePosition) ==
    IF Len(excludePosition) = 0 THEN {}
    ELSE {Key(excludePosition[1].row, excludePosition[1].col)}

\* excludePosition is optional: << >> when absent, <<p>> when given
excludedSetOf(rows, cols, excludePosition) ==
    IF Len(excludePosition) = 0 THEN {}
    ELSE LET p == excludePosition[1]
             neighbors == getNeighbors(p.row, p.col, rows, cols)
         IN  {Key(p.row, p.col)} \cup {Key(n.row, n.col) : n \in SeqToSet(neighbors)}

\* the nested row/col loops that collect the positions outside excludedSet
RECURSIVE AllPositionsFrom(_, _, _, _)
AllPositionsFrom(k, rows, cols, excludedSet) ==
    IF k >= rows * cols THEN << >>
    ELSE LET row == k \div cols
             col == k % cols
         IN  IF Key(row, col) \notin excludedSet
             THEN <<Pos(row, col)>> \o AllPositionsFrom(k + 1, rows, cols, excludedSet)
             ELSE AllPositionsFrom(k + 1, rows, cols, excludedSet)

\* mutant: an exchange that only copies arr[j] over arr[i]
SwapOverwrites(arr, i, j) == [arr EXCEPT ![i + 1] = arr[j + 1]]

Swap(arr, i, j) == [arr EXCEPT ![i + 1] = arr[j + 1], ![j + 1] = arr[i + 1]]

\* the Fisher-Yates loop, i from length-1 down to 1; rnd[k] is the k-th value
\* of Math.floor(Math.random() * (i + 1))
RECURSIVE ShuffleLastSlot(_, _, _, _)
\* mutant: every exchange is made with the last slot
ShuffleLastSlot(arr, i, rnd, k) ==
    IF i <= 0 THEN arr
    ELSE ShuffleLastSlot(Swap(arr, Len(arr) - 1, rnd[k]), i - 1, rnd, k + 1)

RECURSIVE Shuffle(_, _, _, _)
Shuffle(arr, i, rnd, k) ==
    IF i <= 0 THEN arr
    ELSE Shuffle(Swap(arr, i, rnd[k]), i - 1, rnd, k + 1)

\* every sequence of values the random source can give the loop started at i
RECURSIVE RandomFrom(_)
RandomFrom(i) ==
    IF i <= 0 THEN {<< >>}
    ELSE {<<j>> \o s : j \in 0..i, s \in RandomFrom(i - 1)}

RandomSources(rows, cols, excludePosition) ==
    RandomFrom(Len(AllPositionsFrom(0, rows, cols,
                   excludedSetOf(rows, cols, excludePosition))) - 1)

Min(a, b) == IF a <= b THEN a ELSE b
Max(a, b) == IF a >= b THEN a ELSE b

\* Array.prototype.slice(0, end): a negative end counts from the back
Slice0(arr, end) ==
    LET e == IF end < 0 THEN Max(Len(arr) + end, 0) ELSE Min(end, Len(arr))
    IN  SubSeq(arr, 1, e)

\* mutant: the shuffled candidates are returned whole
generateMinePositionsNoSlice(rows, cols, mineCount, excludePosition, rnd) ==
    LET allPositions == AllPositionsFrom(0, rows, cols,
                                         excludedSetOf(rows, cols, excludePosition))
    IN  Shuffle(allPositions, Len(allPositions) - 1, rnd, 1)

\* mutant: allPositions is kept between calls, a later call appends to what
\* the earlier one returned
generateMinePositionsKeepsArray(rows, cols, mineCount, excludePosition, rnd) ==
    LET allPositions == AllPositionsFrom(0, rows, cols,
                                         excludedSetOf(rows, cols, excludePosition))
        fresh == Slice0(Shuffle(allPositions, Len(allPositions) - 1, rnd, 1),
                        Min(mineCount, rows * cols
                               - Cardinality(excludedSetOf(rows, cols, excludePosition))))
    IN  IF op.name = "generateMinePositions" THEN out.value \o fresh ELSE fresh

generateMinePositions(rows, cols, mineCount, excludePosition, rnd) ==
    LET totalCells == rows * cols
        excludedSet == excludedSetOf(rows, cols, excludePosition)
        availableCells == totalCells - Cardinality(excludedSet)
        actualMineCount == Min(mineCount, availableCells)
        allPositions == AllPositionsFrom(0, rows, cols, excludedSet)
        shuffled == Shuffle(allPositions, Len(allPositions) - 1, rnd, 1)
    IN  Slice0(shuffled, actualMineCount)

\* the loop of placeMines over minePositions, on the copied grid
RECURSIVE PlaceFrom(_, _, _)
PlaceFrom(grid, minePositions, i) ==
    IF i > Len(minePositions) THEN grid
    ELSE LET p == minePositions[i]
         IN  PlaceFrom([grid EXCEPT ![p.row + 1][p.col + 1].content = MINE],
                       minePositions, i + 1)

placeMines(grid, minePositions) == PlaceFrom(grid, minePositions, 1)

\* newBoard[row][col].content = 'mine' raises a TypeError when newBoard[row]
\* or newBoard[row][col] is undefined
placeMinesThrows(grid, minePositions) ==
    \E i \in 1..Len(minePositions) :
      LET p == minePositions[i]
      IN  \/ (p.row + 1) \notin DOMAIN grid
          \/ (p.col + 1) \notin DOMAIN grid[p.row + 1]

\* ------------------------------------------------------ board construction
\* mutant: the cell itself is counted with its neighbours
countAdjacentMinesCountsSelf(grid, row, col) ==
    LET rows == NumRows(grid)
        cols == NumCols(grid)
    IN  IF rows = 0 THEN 0
        ELSE IF cols = 0 THEN 0
        ELSE IF ~isValidPosition(row, col, rows, cols) THEN 0
        ELSE LET neighbors == <<Pos(row, col)>> \o getNeighbors(row, col, rows, cols)
             IN  Cardinality({i \in 1..Len(neighbors) :
                     CellAt(grid, neighbors[i].row, neighbors[i].col).content = MINE})

countAdjacentMines(grid, row, col) ==
    LET rows == NumRows(grid)
        cols == NumCols(grid)
    IN  IF rows = 0 THEN 0
        ELSE IF cols = 0 THEN 0
        ELSE IF ~isValidPosition(row, col, rows, cols) THEN 0
        ELSE LET neighbors == getNeighbors(row, col, rows, cols)
             IN  Cardinality({i \in 1..Len(neighbors) :
                     CellAt(grid, neighbors[i].row, neighbors[i].col).content = MINE})

calculateNumbers(grid) ==
    LET rows == NumRows(grid)
        cols == NumCols(grid)
    IN  IF rows = 0 THEN << >>
        ELSE IF cols = 0 THEN [r \in 1..rows |-> << >>]
        ELSE [r \in 1..rows |-> [c \in 1..cols |->
                 IF grid[r][c].content # MINE
                 THEN [grid[r][c] EXCEPT !.content = countAdjacentMines(grid, r - 1, c - 1)]
                 ELSE grid[r][c]]]

createBoard(config, excludePosition, rnd) ==
    calculateNumbers(
        placeMines(createEmptyBoard(config.rows, config.cols),
                   generateMinePositions(config.rows, config.cols, config.mineCount,
                                         excludePosition, rnd)))

createBoardWithMines(rows, cols, minePositions) ==
    calculateNumbers(placeMines(createEmptyBoard(rows, cols), minePositions))

\* ------------------------------------------------------------- predicates
\* the cells of a board in the order the for-of loops visit them
RECURSIVE Flatten(_, _)
Flatten(grid, r) ==
    IF r > Len(grid) THEN << >> ELSE grid[r] \o Flatten(grid, r + 1)

RECURSIVE LostFrom(_, _)
LostFrom(cells, i) ==
    IF i > Len(cells) THEN FALSE
    ELSE IF cells[i].content = MINE /\ cells[i].isRevealed THEN TRUE
    ELSE LostFrom(cells, i + 1)

\* mutant: a mine counts as lost whether revealed or not
checkGameLostAnyMine(grid) ==
    \E i \in 1..Len(Flatten(grid, 1)) : Flatten(grid, 1)[i].content = MINE

checkGameLost(grid) == LostFrom(Flatten(grid, 1), 1)

RECURSIVE WonFrom(_, _, _)
WonFrom(grid, cells, i) ==
    IF i > Len(cells) THEN Len(grid) > 0 /\ NumCols(grid) > 0
    ELSE IF cells[i].content # MINE /\ ~cells[i].isRevealed THEN FALSE
    ELSE WonFrom(grid, cells, i + 1)

\* mutant: no check that the board has a cell
checkGameWonNoEmptyCheck(grid) ==
    \A i \in 1..Len(Flatten(grid, 1)) :
        ~(Flatten(grid, 1)[i].content # MINE /\ ~Flatten(grid, 1)[i].isRevealed)

\* mutant: a flagged cell does not keep the game from being won
checkGameWonSkipsFlagged(grid) ==
    /\ \A i \in 1..Len(Flatten(grid, 1)) :
          ~(/\ Flatten(grid, 1)[i].content # MINE
            /\ ~Flatten(grid, 1)[i].isRevealed
            /\ ~Flatten(grid, 1)[i].isFlagged)
    /\ Len(grid) > 0 /\ NumCols(grid) > 0

checkGameWon(grid) == WonFrom(grid, Flatten(grid, 1), 1)

RECURSIVE FlagsFrom(_, _)
FlagsFrom(cells, i) ==
    IF i > Len(cells) THEN 0
    ELSE (IF cells[i].isFlagged THEN 1 ELSE 0) + FlagsFrom(cells, i + 1)

\* mutant: a flag on a revealed cell is not counted
countFlagsHiddenOnly(grid) ==
    Len(SelectSeq(Flatten(grid, 1), LAMBDA cell : cell.isFlagged /\ ~cell.isRevealed))

countFlags(grid) == FlagsFrom(Flatten(grid, 1), 1)

\* ------------------------------------------------------------ transitions
RECURSIVE revealCell(_, _, _)
RECURSIVE RevealNeighbors(_, _, _)

\* mutant: the flood-fill loop stops one neighbour early
RECURSIVE RevealNeighborsSkipLast(_, _, _)
RevealNeighborsSkipLast(resultBoard, neighbors, i) ==
    IF i >= Len(neighbors) THEN resultBoard
    ELSE RevealNeighborsSkipLast(
             revealCell(resultBoard, neighbors[i].row, neighbors[i].col),
             neighbors, i + 1)

\* mutant: the flood-fill loop ends at the first flagged neighbour
RECURSIVE RevealNeighborsStopsAtFlag(_, _, _)
RevealNeighborsStopsAtFlag(resultBoard, neighbors, i) ==
    IF i > Len(neighbors) THEN resultBoard
    ELSE IF CellAt(resultBoard.grid, neighbors[i].row, neighbors[i].col).isFlagged
    THEN resultBoard
    ELSE RevealNeighborsStopsAtFlag(
             revealCell(resultBoard, neighbors[i].row, neighbors[i].col),
             neighbors, i + 1)

\* the flood-fill loop: resultBoard = revealCell(resultBoard, neighbor...)
RevealNeighbors(resultBoard, neighbors, i) ==
    IF i > Len(neighbors) THEN resultBoard
    ELSE RevealNeighbors(revealCell(resultBoard, neighbors[i].row, neighbors[i].col),
                         neighbors, i + 1)

\* mutant: a flagged cell is revealed like any other
revealCellIgnoresFlag(board, row, col) ==
    LET rows == NumRows(board.grid)
        cols == NumCols(board.grid)
    IN  IF rows = 0 THEN board
        ELSE IF cols = 0 THEN board
        ELSE IF ~isValidPosition(row, col, rows, cols) THEN board
        ELSE IF CellAt(board.grid, row, col).isRevealed THEN board
        ELSE LET copy == CopyOf(board)
                 newBoard == [copy EXCEPT !.grid[row + 1][col + 1].isRevealed = TRUE]
                 content == CellAt(newBoard.grid, row, col).content
             IN  IF content = MINE \/ content > 0 THEN newBoard
                 ELSE RevealNeighbors(newBoard, getNeighbors(row, col, rows, cols), 1)

\* mutant: a flagged or revealed target gives a copy, not the input itself
revealCellCopies(board, row, col) ==
    LET rows == NumRows(board.grid)
        cols == NumCols(board.grid)
    IN  IF rows = 0 THEN board
        ELSE IF cols = 0 THEN board
        ELSE IF ~isValidPosition(row, col, rows, cols) THEN board
        ELSE IF CellAt(board.grid, row, col).isFlagged
                \/ CellAt(board.grid, row, col).isRevealed THEN CopyOf(board)
        ELSE LET copy == CopyOf(board)
                 newBoard == [copy EXCEPT !.grid[row + 1][col + 1].isRevealed = TRUE]
                 content == CellAt(newBoard.grid, row, col).content
             IN  IF content = MINE \/ content > 0 THEN newBoard
                 ELSE RevealNeighbors(newBoard, getNeighbors(row, col, rows, cols), 1)

\* mutant: the flood-fill also starts from a numbered cell
revealCellFloodsNumbers(board, row, col) ==
    LET rows == NumRows(board.grid)
        cols == NumCols(board.grid)
    IN  IF rows = 0 THEN board
        ELSE IF cols = 0 THEN board
        ELSE IF ~isValidPosition(row, col, rows, cols) THEN board
        ELSE IF CellAt(board.grid, row, col).isFlagged
                \/ CellAt(board.grid, row, col).isRevealed THEN board
        ELSE LET copy == CopyOf(board)
                 newBoard == [copy EXCEPT !.grid[row + 1][col + 1].isRevealed = TRUE]
                 content == CellAt(newBoard.grid, row, col).content
             IN  IF content = MINE THEN newBoard
                 ELSE RevealNeighbors(newBoard, getNeighbors(row, col, rows, cols), 1)

\* mutant: the early return for a mine or a numbered cell gives back the
\* input board, not the copy with the cell revealed
revealCellReturnsInput(board, row, col) ==
    LET rows == NumRows(board.grid)
        cols == NumCols(board.grid)
    IN  IF rows = 0 THEN board
        ELSE IF cols = 0 THEN board
        ELSE IF ~isValidPosition(row, col, rows, cols) THEN board
        ELSE IF CellAt(board.grid, row, col).isFlagged
                \/ CellAt(board.grid, row, col).isRevealed THEN board
        ELSE LET copy == CopyOf(board)
                 newBoard == [copy EXCEPT !.grid[row + 1][col + 1].isRevealed = TRUE]
                 content == CellAt(newBoard.grid, row, col).content
             IN  IF content = MINE \/ content > 0 THEN board
                 ELSE RevealNeighbors(newBoard, getNeighbors(row, col, rows, cols), 1)

\* mutant: a revealed numbered cell is not a no-op, it is copied and
\* revealed again
revealCellRevisitsNumbers(board, row, col) ==
    LET rows == NumRows(board.grid)
        cols == NumCols(board.grid)
    IN  IF rows = 0 THEN board
        ELSE IF cols = 0 THEN board
        ELSE IF ~isValidPosition(row, col, rows, cols) THEN board
        ELSE IF CellAt(board.grid, row, col).isFlagged
                \/ (CellAt(board.grid, row, col).isRevealed
                    /\ CellAt(board.grid, row, col).content = 0) THEN board
        ELSE LET copy == CopyOf(board)
                 newBoard == [copy EXCEPT !.grid[row + 1][col + 1].isRevealed = TRUE]
                 content == CellAt(newBoard.grid, row, col).content
             IN  IF content = MINE \/ content > 0 THEN newBoard
                 ELSE RevealNeighbors(newBoard, getNeighbors(row, col, rows, cols), 1)

\* mutant: only a numbered cell returns early, a mine floods on
revealCellFloodsMines(board, row, col) ==
    LET rows == NumRows(board.grid)
        cols == NumCols(board.grid)
    IN  IF rows = 0 THEN board
        ELSE IF cols = 0 THEN board
        ELSE IF ~isValidPosition(row, col, rows, cols) THEN board
        ELSE IF CellAt(board.grid, row, col).isFlagged
                \/ CellAt(board.grid, row, col).isRevealed THEN board
        ELSE LET copy == CopyOf(board)
                 newBoard == [copy EXCEPT !.grid[row + 1][col + 1].isRevealed = TRUE]
                 content == CellAt(newBoard.grid, row, col).content
             IN  IF content > 0 THEN newBoard
                 ELSE RevealNeighbors(newBoard, getNeighbors(row, col, rows, cols), 1)

\* mutant: a flag holds back the reveal of a number or a mine only
revealCellFloodsThroughFlags(board, row, col) ==
    LET rows == NumRows(board.grid)
        cols == NumCols(board.grid)
    IN  IF rows = 0 THEN board
        ELSE IF cols = 0 THEN board
        ELSE IF ~isValidPosition(row, col, rows, cols) THEN board
        ELSE IF (CellAt(board.grid, row, col).isFlagged
                 /\ CellAt(board.grid, row, col).content # 0)
                \/ CellAt(board.grid, row, col).isRevealed THEN board
        ELSE LET copy == CopyOf(board)
                 newBoard == [copy EXCEPT !.grid[row + 1][col + 1].isRevealed = TRUE]
                 content == CellAt(newBoard.grid, row, col).content
             IN  IF content = MINE \/ content > 0 THEN newBoard
                 ELSE RevealNeighbors(newBoard, getNeighbors(row, col, rows, cols), 1)

revealCell(board, row, col) ==
    LET rows == NumRows(board.grid)
        cols == NumCols(board.grid)
    IN  IF rows = 0 THEN board
        ELSE IF cols = 0 THEN board
        ELSE IF ~isValidPosition(row, col, rows, cols) THEN board
        ELSE IF CellAt(board.grid, row, col).isFlagged
                \/ CellAt(board.grid, row, col).isRevealed THEN board
        ELSE LET copy == CopyOf(board)
                 newBoard == [copy EXCEPT !.grid[row + 1][col + 1].isRevealed = TRUE]
                 content == CellAt(newBoard.grid, row, col).content
             IN  IF content = MINE \/ content > 0 THEN newBoard
                 ELSE RevealNeighbors(newBoard, getNeighbors(row, col, rows, cols), 1)

\* mutant: isRevealed is set from the content alone, the old value dropped
revealAllMinesOnlyMines(board) ==
    [ref |-> board.ref + 1,
     grid |-> [r \in 1..Len(board.grid) |-> [c \in 1..Len(board.grid[r]) |->
                  [board.grid[r][c] EXCEPT !.isRevealed =
                      (board.grid[r][c].content = MINE)]]]]

\* mutant: a revealed mine loses its flag
revealAllMinesClearsFlags(board) ==
    [ref |-> board.ref + 1,
     grid |-> [r \in 1..Len(board.grid) |-> [c \in 1..Len(board.grid[r]) |->
                  IF board.grid[r][c].content = MINE
                  THEN [board.grid[r][c] EXCEPT !.isRevealed = TRUE,
                                                !.isFlagged = FALSE]
                  ELSE board.grid[r][c]]]]

\* mutant: every cell is revealed, mine or not
revealAllMinesRevealsAll(board) ==
    [ref |-> board.ref + 1,
     grid |-> [r \in 1..Len(board.grid) |-> [c \in 1..Len(board.grid[r]) |->
                  [board.grid[r][c] EXCEPT !.isRevealed = TRUE]]]]

revealAllMines(board) ==
    [ref |-> board.ref + 1,
     grid |-> [r \in 1..Len(board.grid) |-> [c \in 1..Len(board.grid[r]) |->
                  [board.grid[r][c] EXCEPT !.isRevealed =
                      IF board.grid[r][c].content = MINE THEN TRUE
                      ELSE board.grid[r][c].isRevealed]]]]

\* mutant: the flag is set, not inverted
toggleFlagSets(board, row, col) ==
    LET rows == NumRows(board.grid)
        cols == NumCols(board.grid)
    IN  IF rows = 0 THEN board
        ELSE IF cols = 0 THEN board
        ELSE IF ~isValidPosition(row, col, rows, cols) THEN board
        ELSE IF CellAt(board.grid, row, col).isRevealed THEN board
        ELSE LET copy == CopyOf(board)
             IN  [copy EXCEPT !.grid[row + 1][col + 1].isFlagged = TRUE]

\* mutant: a revealed target gives back a copy of the board
toggleFlagCopies(board, row, col) ==
    LET rows == NumRows(board.grid)
        cols == NumCols(board.grid)
    IN  IF rows = 0 THEN board
        ELSE IF cols = 0 THEN board
        ELSE IF ~isValidPosition(row, col, rows, cols) THEN board
        ELSE IF CellAt(board.grid, row, col).isRevealed THEN CopyOf(board)
        ELSE LET copy == CopyOf(board)
             IN  [copy EXCEPT !.grid[row + 1][col + 1].isFlagged =
                      ~CellAt(copy.grid, row, col).isFlagged]

\* mutant: a revealed target is flagged like any other
toggleFlagIgnoresRevealed(board, row, col) ==
    LET rows == NumRows(board.grid)
        cols == NumCols(board.grid)
    IN  IF rows = 0 THEN board
        ELSE IF cols = 0 THEN board
        ELSE IF ~isValidPosition(row, col, rows, cols) THEN board
        ELSE LET copy == CopyOf(board)
             IN  [copy EXCEPT !.grid[row + 1][col + 1].isFlagged =
                      ~CellAt(copy.grid, row, col).isFlagged]

\* mutant: setting a flag takes every other flag off the board
toggleFlagMovesFlag(board, row, col) ==
    LET rows == NumRows(board.grid)
        cols == NumCols(board.grid)
    IN  IF rows = 0 THEN board
        ELSE IF cols = 0 THEN board
        ELSE IF ~isValidPosition(row, col, rows, cols) THEN board
        ELSE IF CellAt(board.grid, row, col).isRevealed THEN board
        ELSE [ref |-> board.ref + 1,
              grid |-> [r \in 1..Len(board.grid) |-> [c \in 1..Len(board.grid[r]) |->
                  [board.grid[r][c] EXCEPT !.isFlagged =
                      IF r = row + 1 /\ c = col + 1
                      THEN ~board.grid[r][c].isFlagged
                      ELSE board.grid[r][c].isFlagged
                           /\ CellAt(board.grid, row, col).isFlagged]]]]

toggleFlag(board, row, col) ==
    LET rows == NumRows(board.grid)
        cols == NumCols(board.grid)
    IN  IF rows = 0 THEN board
        ELSE IF cols = 0 THEN board
        ELSE IF ~isValidPosition(row, col, rows, cols) THEN board
        ELSE IF CellAt(board.grid, row, col).isRevealed THEN board
        ELSE LET copy == CopyOf(board)
             IN  [copy EXCEPT !.grid[row + 1][col + 1].isFlagged =
                      ~CellAt(copy.grid, row, col).isFlagged]

\* ------------------------------------------- the operations on cell objects
\* The same operations with the cells as objects in memory: a board is a
\* matrix of addresses into cells, `{ ...cell }` allocates a new cell, and an
\* assignment to a field writes the cell at its address. The arrays holding
\* the rows are never assigned to after they are built.
Memory(cells, at) == [cells |-> cells, at |-> at]

\* a board built cell by cell in an empty memory
Load(grid) ==
    Memory(Flatten(grid, 1),
           [r \in 1..Len(grid) |-> [c \in 1..Len(grid[r]) |->
               (r - 1) * Len(grid[r]) + c]])

\* the board a holder of the matrix `at` reads
View(cells, at) ==
    [r \in 1..Len(at) |-> [c \in 1..Len(at[r]) |-> cells[at[r][c]]]]

\* mutant: the new board holds the cell objects of the old one
CopyCellsShared(m) == m

\* board.map(r => r.map(cell => ({ ...cell })))
CopyCells(m) ==
    Memory(m.cells \o Flatten(View(m.cells, m.at), 1),
           [r \in 1..Len(m.at) |-> [c \in 1..Len(m.at[r]) |->
               Len(m.cells) + (r - 1) * Len(m.at[r]) + c]])

RECURSIVE PlaceIn(_, _, _)
PlaceIn(m, minePositions, i) ==
    IF i > Len(minePositions) THEN m
    ELSE LET p == minePositions[i]
         IN  PlaceIn([m EXCEPT !.cells[m.at[p.row + 1][p.col + 1]].content = MINE],
                     minePositions, i + 1)

placeMinesIn(m, minePositions) == PlaceIn(CopyCells(m), minePositions, 1)

\* the row/col loops of calculateNumbers: newBoard is written, board is read
RECURSIVE NumbersIn(_, _, _)
NumbersIn(board, newBoard, k) ==
    LET rows == Len(board)
        cols == Len(board[1])
        row == k \div cols
        col == k % cols
        a == newBoard.at[row + 1][col + 1]
    IN  IF k >= rows * cols THEN newBoard
        ELSE IF newBoard.cells[a].content # MINE
        THEN NumbersIn(board,
                 [newBoard EXCEPT !.cells[a].content =
                      countAdjacentMines(View(newBoard.cells, board), row, col)],
                 k + 1)
        ELSE NumbersIn(board, newBoard, k + 1)

\* mutant: a board of empty rows comes back without its rows
calculateNumbersInDropsRows(m) ==
    IF Len(m.at) = 0 THEN Memory(m.cells, << >>)
    ELSE IF Len(m.at[1]) = 0 THEN Memory(m.cells, << >>)
    ELSE NumbersIn(m.at, CopyCells(m), 0)

calculateNumbersIn(m) ==
    IF Len(m.at) = 0 THEN Memory(m.cells, << >>)
    ELSE IF Len(m.at[1]) = 0 THEN Memory(m.cells, [r \in 1..Len(m.at) |-> << >>])
    ELSE NumbersIn(m.at, CopyCells(m), 0)

RECURSIVE revealCellIn(_, _, _)
RECURSIVE RevealNeighborsIn(_, _, _)
RevealNeighborsIn(resultBoard, neighbors, i) ==
    IF i > Len(neighbors) THEN resultBoard
    ELSE RevealNeighborsIn(
             revealCellIn(resultBoard, neighbors[i].row, neighbors[i].col),
             neighbors, i + 1)

revealCellIn(m, row, col) ==
    LET rows == Len(m.at)
        cols == IF rows = 0 THEN 0 ELSE Len(m.at[1])
    IN  IF rows = 0 THEN m
        ELSE IF cols = 0 THEN m
        ELSE IF ~isValidPosition(row, col, rows, cols) THEN m
        ELSE IF m.cells[m.at[row + 1][col + 1]].isFlagged
                \/ m.cells[m.at[row + 1][col + 1]].isRevealed THEN m
        ELSE LET copy == CopyCells(m)
                 a == copy.at[row + 1][col + 1]
                 newBoard == [copy EXCEPT !.cells[a].isRevealed = TRUE]
                 content == newBoard.cells[a].content
             IN  IF content = MINE \/ content > 0 THEN newBoard
                 ELSE RevealNeighborsIn(newBoard, getNeighbors(row, col, rows, cols), 1)

\* board.map(row => row.map(cell => ({ ...cell, isRevealed: ... })))
revealAllMinesIn(m) ==
    LET copy == CopyCells(m)
    IN  [copy EXCEPT !.cells = [a \in 1..Len(copy.cells) |->
            IF a > Len(m.cells) /\ copy.cells[a].content = MINE
            THEN [copy.cells[a] EXCEPT !.isRevealed = TRUE]
            ELSE copy.cells[a]]]

toggleFlagIn(m, row, col) ==
    LET rows == Len(m.at)
        cols == IF rows = 0 THEN 0 ELSE Len(m.at[1])
    IN  IF rows = 0 THEN m
        ELSE IF cols = 0 THEN m
        ELSE IF ~isValidPosition(row, col, rows, cols) THEN m
        ELSE IF m.cells[m.at[row + 1][col + 1]].isRevealed THEN m
        ELSE LET copy == CopyCells(m)
                 a == copy.at[row + 1][col + 1]
             IN  [copy EXCEPT !.cells[a].isFlagged = ~copy.cells[a].isFlagged]

\* ------------------------------------------------------------------ state
\* board: the caller's current board (the grid of the object it holds)
\* prev:  the board handed to the last operation (<< >> after a construction)
\* same:  the last operation returned the very object it was given
\* app:   the App component's other state: config, gameStatus, isFirstClick
\*        (NoApp while the engine is driven directly)
\* draw:  the arguments and random values of the construction call examined
\*        (NoDraw elsewhere)
\* heap:  the cell objects after the last operation, with the address matrix
\*        of the board it was given (input) and of the board it returned
\*        (NoHeap where boards are handled as values)
VARIABLES board, prev, same, app, draw, heap

vars == <<board, prev, op, same, app, draw, out, heap>>

NoApp == [config |-> [rows |-> 0, cols |-> 0, mineCount |-> 0],
          gameStatus |-> "none", isFirstClick |-> FALSE]

NoDraw == [kind |-> "none", rows |-> 0, cols |-> 0, mineCount |-> 0,
           exclude |-> << >>, rnd |-> << >>, positions |-> << >>]

NoOut == [threw |-> FALSE, value |-> << >>]

\* the engine driven directly: no App around it, no construction examined
NoHeap == [cells |-> << >>, input |-> << >>, at |-> << >>]

EngineOnly == app = NoApp /\ draw = NoDraw /\ out = NoOut /\ heap = NoHeap

EngineStep == UNCHANGED <<app, draw, out, heap>>

NoArg == [rows |-> 0, cols |-> 0, mineCount |-> 0, positions |-> << >>]

Call(name, pos, arg) == [name |-> name, pos |-> pos, arg |-> arg]

\* the board sizes explored
Sizes ==
    {d \in (0..MaxRows) \X (0..MaxCols) : d[1] * d[2] <= MaxCells}

InBounds(rows, cols) == {Pos(r, c) : r \in 0..(rows - 1), c \in 0..(cols - 1)}

\* the positions a caller passes: every cell, and one position beyond each side
OpPositions(rows, cols) ==
    InBounds(rows, cols) \cup {Pos(-1, 0), Pos(0, -1), Pos(rows, 0), Pos(0, cols)}

\* position lists of createBoardWithMines, repetition and any order included
RECURSIVE PositionLists(_, _)
PositionLists(S, n) ==
    IF n = 0 THEN {<< >>}
    ELSE LET shorter == PositionLists(S, n - 1)
         IN  shorter \cup {<<p>> \o l : p \in S, l \in {x \in shorter : Len(x) = n - 1}}

InitWithMines ==
    \E d \in Sizes :
      LET rows == d[1]
          cols == d[2]
      IN
      \E positions \in PositionLists(InBounds(rows, cols), MaxMines) :
        /\ board = createBoardWithMines(rows, cols, positions)
        /\ prev = << >>
        /\ op = Call("createBoardWithMines", << >>,
                     [rows |-> rows, cols |-> cols, mineCount |-> 0,
                      positions |-> positions])
        /\ same = FALSE
        /\ EngineOnly

\* the first click: createBoard(config, {row, col}) with the clicked cell
InitCreate ==
    \E d \in Sizes, mineCount \in (-1)..MaxMineCount :
      LET rows == d[1]
          cols == d[2]
      IN
      \E p \in InBounds(rows, cols) :
        \E rnd \in RandomSources(rows, cols, <<p>>) :
          /\ board = createBoard([rows |-> rows, cols |-> cols, mineCount |-> mineCount],
                                 <<p>>, rnd)
          /\ prev = << >>
          /\ op = Call("createBoard", <<p>>,
                       [rows |-> rows, cols |-> cols, mineCount |-> mineCount,
                        positions |-> << >>])
          /\ same = FALSE
          /\ EngineOnly

Init == InitWithMines \/ InitCreate

Obj(grid) == [ref |-> 0, grid |-> grid]

Reveal(p) ==
    LET res == revealCell(Obj(board), p.row, p.col)
    IN  /\ board' = res.grid
        /\ prev' = board
        /\ op' = Call("revealCell", <<p>>, NoArg)
        /\ same' = (res.ref = 0)
        /\ EngineStep

Flag(p) ==
    LET res == toggleFlag(Obj(board), p.row, p.col)
    IN  /\ countFlags(res.grid) <= MaxFlags
        /\ board' = res.grid
        /\ prev' = board
        /\ op' = Call("toggleFlag", <<p>>, NoArg)
        /\ same' = (res.ref = 0)
        /\ EngineStep

RevealAll ==
    LET res == revealAllMines(Obj(board))
    IN  /\ board' = res.grid
        /\ prev' = board
        /\ op' = Call("revealAllMines", << >>, NoArg)
        /\ same' = (res.ref = 0)
        /\ EngineStep

\* a game: the view calls the engine with the cells of the board it renders
Next ==
    \/ \E p \in InBounds(NumRows(board), NumCols(board)) : Reveal(p)
    \/ \E p \in InBounds(NumRows(board), NumCols(board)) : Flag(p)
    \/ RevealAll

Spec == Init /\ [][Next]_vars

\* ------------------------------------------------- the operations as functions
\* Any board the Board type admits (hand-built, as the tests build them): any
\* content, numbers consistent with the mines or not, any flags.
AnyContents == {MINE, 0, 1}

AnyCells == [content : AnyContents, isRevealed : BOOLEAN, isFlagged : BOOLEAN]

AnySizes == {d \in (0..MaxRows) \X (0..MaxCols) : d[1] * d[2] <= MaxAnyCells}

InitAny ==
    \E d \in AnySizes :
      /\ board \in [1..d[1] -> [1..d[2] -> AnyCells]]
      /\ prev = << >>
      /\ op = Call("given", << >>, NoArg)
      /\ same = FALSE
      /\ EngineOnly

FlagAny(p) ==
    LET res == toggleFlag(Obj(board), p.row, p.col)
    IN  /\ board' = res.grid
        /\ prev' = board
        /\ op' = Call("toggleFlag", <<p>>, NoArg)
        /\ same' = (res.ref = 0)
        /\ EngineStep

NextAny ==
    \/ \E p \in OpPositions(NumRows(board), NumCols(board)) : Reveal(p)
    \/ \E p \in OpPositions(NumRows(board), NumCols(board)) : FlagAny(p)
    \/ RevealAll

SpecAny == InitAny /\ [][NextAny]_vars

\* a board of createBoardWithMines changed by revealCell calls only
NextReveal == \E p \in OpPositions(NumRows(board), NumCols(board)) : Reveal(p)

SpecReveal == InitWithMines /\ [][NextReveal]_vars

\* A board of createBoardWithMines on which any cells are already revealed or
\* flagged (as a hand-built test board, or a game in any state), then revealCell.
Marks == {m \in [isRevealed : BOOLEAN, isFlagged : BOOLEAN] :
              ~(m.isRevealed /\ m.isFlagged)}

Marked(grid, marks) ==
    [r \in 1..Len(grid) |-> [c \in 1..Len(grid[r]) |->
        [content |-> grid[r][c].content,
         isRevealed |-> marks[r][c].isRevealed,
         isFlagged |-> marks[r][c].isFlagged]]]

InitMarked ==
    \E d \in Sizes :
      \E positions \in PositionLists(InBounds(d[1], d[2]), MaxMines) :
        LET built == createBoardWithMines(d[1], d[2], positions) IN
        \E marks \in [1..d[1] -> [1..d[2] -> Marks]] :
          /\ board = Marked(built, marks)
          /\ prev = << >>
          /\ op = Call("given", << >>, NoArg)
          /\ same = FALSE
          /\ EngineOnly

NextMarked == \E p \in InBounds(NumRows(board), NumCols(board)) : Reveal(p)

SpecMarked == InitMarked /\ [][NextMarked]_vars

\* the last operation was name
Did(name) == op.name = name

\* ------------------------------------------- the operations on shared cells
\* Hand-built boards whose cells are objects in memory. The caller keeps the
\* board it passes in; heap.input reads it again after the call.
HeapSizes == {d \in (0..MaxRows) \X (0..MaxCols) : d[1] * d[2] <= MaxHeapCells}

InitHeap ==
    \E d \in HeapSizes :
      /\ board \in [1..d[1] -> [1..d[2] -> AnyCells]]
      /\ prev = << >>
      /\ op = Call("given", << >>, NoArg)
      /\ same = FALSE
      /\ app = NoApp /\ draw = NoDraw /\ out = NoOut
      /\ heap = [cells |-> Load(board).cells, input |-> Load(board).at,
                 at |-> Load(board).at]

\* the call `name` was given the hand-built board and returned res
Returns(name, pos, arg, res) ==
    /\ Did("given")
    /\ board' = View(res.cells, res.at)
    /\ prev' = board
    /\ op' = Call(name, pos, arg)
    /\ same' = (res.at = Load(board).at /\ name \in {"revealCell", "toggleFlag"})
    /\ heap' = [cells |-> res.cells, input |-> Load(board).at, at |-> res.at]
    /\ UNCHANGED <<app, draw, out>>

HeapPlace(l) ==
    Returns("placeMines", << >>, [NoArg EXCEPT !.positions = l],
            placeMinesIn(Load(board), l))

HeapCalculate == Returns("calculateNumbers", << >>, NoArg, calculateNumbersIn(Load(board)))

HeapReveal(p) == Returns("revealCell", <<p>>, NoArg, revealCellIn(Load(board), p.row, p.col))

HeapRevealAll == Returns("revealAllMines", << >>, NoArg, revealAllMinesIn(Load(board)))

HeapFlag(p) == Returns("toggleFlag", <<p>>, NoArg, toggleFlagIn(Load(board), p.row, p.col))

NextHeap ==
    \/ \E l \in PositionLists(InBounds(NumRows(board), NumCols(board)), MaxMines) :
          HeapPlace(l)
    \/ HeapCalculate
    \/ \E p \in OpPositions(NumRows(board), NumCols(board)) : HeapReveal(p)
    \/ HeapRevealAll
    \/ \E p \in OpPositions(NumRows(board), NumCols(board)) : HeapFlag(p)

SpecHeap == InitHeap /\ [][NextHeap]_vars

\* ------------------------------------------------------------------ the App
\* App.tsx: the board, gameStatus and isFirstClick of the component, and its
\* three handlers.  The config is a constant of the component; the sizes
\* explored stand for DEFAULT_CONFIG.
AppState(config, gameStatus, isFirstClick) ==
    [config |-> config, gameStatus |-> gameStatus, isFirstClick |-> isFirstClick]

AppSizes == {d \in (0..MaxRows) \X (0..MaxCols) : d[1] * d[2] <= MaxAppCells}

\* a handler call, with the gameStatus the handler found
AppCall(name, pos) ==
    [name |-> name, pos |-> pos, arg |-> NoArg, status |-> app.gameStatus]

InitApp ==
    \E d \in AppSizes, mineCount \in 0..MaxMineCount :
      /\ app = AppState([rows |-> d[1], cols |-> d[2], mineCount |-> mineCount],
                        "idle", TRUE)
      /\ board = createEmptyBoard(d[1], d[2])
      /\ prev = << >>
      /\ op = Call("App", << >>, NoArg)
      /\ same = FALSE
      /\ draw = NoDraw
      /\ out = NoOut
      /\ heap = NoHeap

\* mutant: a reset leaves isFirstClick as it is
resetGameKeepsFirstClick ==
    /\ board' = createEmptyBoard(app.config.rows, app.config.cols)
    /\ app' = AppState(app.config, "idle", app.isFirstClick)
    /\ prev' = << >>
    /\ op' = AppCall("resetGame", << >>)
    /\ same' = FALSE
    /\ UNCHANGED <<draw, out, heap>>

resetGame ==
    /\ board' = createEmptyBoard(app.config.rows, app.config.cols)
    /\ app' = AppState(app.config, "idle", TRUE)
    /\ prev' = << >>
    /\ op' = AppCall("resetGame", << >>)
    /\ same' = FALSE
    /\ UNCHANGED <<draw, out, heap>>

\* mutant: a lost game keeps the board as the reveal left it
RevealOutcomeKeepsMinesHidden(newBoard, status, first) ==
    IF checkGameLost(newBoard)
    THEN /\ board' = newBoard
         /\ app' = AppState(app.config, "lost", first)
    ELSE IF checkGameWon(newBoard)
    THEN /\ board' = newBoard
         /\ app' = AppState(app.config, "won", first)
    ELSE /\ board' = newBoard
         /\ app' = AppState(app.config, status, first)

\* the end of handleCellReveal: the game-over checks, then setBoard
RevealOutcome(newBoard, status, first) ==
    IF checkGameLost(newBoard)
    THEN /\ board' = revealAllMines(Obj(newBoard)).grid
         /\ app' = AppState(app.config, "lost", first)
    ELSE IF checkGameWon(newBoard)
    THEN /\ board' = newBoard
         /\ app' = AppState(app.config, "won", first)
    ELSE /\ board' = newBoard
         /\ app' = AppState(app.config, status, first)

\* mutant: the clicked position reaches createBoard with row and col swapped
handleCellRevealTransposed(p) ==
    /\ prev' = board
    /\ op' = AppCall("handleCellReveal", <<p>>)
    /\ same' = FALSE
    /\ UNCHANGED <<draw, out, heap>>
    /\ IF app.gameStatus = "won" \/ app.gameStatus = "lost"
       THEN UNCHANGED <<board, app>>
       ELSE IF app.isFirstClick
       THEN \E rnd \in RandomSources(app.config.rows, app.config.cols,
                                     <<Pos(p.col, p.row)>>) :
              RevealOutcome(
                  revealCell(Obj(createBoard(app.config, <<Pos(p.col, p.row)>>, rnd)),
                             p.row, p.col).grid,
                  "playing", FALSE)
       ELSE RevealOutcome(revealCell(Obj(board), p.row, p.col).grid,
                          app.gameStatus, app.isFirstClick)

\* mutant: isFirstClick stays true, every reveal of a game draws new mines
handleCellRevealKeepsFirstClick(p) ==
    /\ prev' = board
    /\ op' = AppCall("handleCellReveal", <<p>>)
    /\ same' = FALSE
    /\ UNCHANGED <<draw, out, heap>>
    /\ IF app.gameStatus = "won" \/ app.gameStatus = "lost"
       THEN UNCHANGED <<board, app>>
       ELSE \E rnd \in RandomSources(app.config.rows, app.config.cols, <<p>>) :
              RevealOutcome(
                  revealCell(Obj(createBoard(app.config, <<p>>, rnd)), p.row, p.col).grid,
                  "playing", TRUE)

handleCellReveal(p) ==
    /\ prev' = board
    /\ op' = AppCall("handleCellReveal", <<p>>)
    /\ same' = FALSE
    /\ UNCHANGED <<draw, out, heap>>
    /\ IF app.gameStatus = "won" \/ app.gameStatus = "lost"
       THEN UNCHANGED <<board, app>>
       ELSE IF app.isFirstClick
       THEN \E rnd \in RandomSources(app.config.rows, app.config.cols, <<p>>) :
              RevealOutcome(
                  revealCell(Obj(createBoard(app.config, <<p>>, rnd)), p.row, p.col).grid,
                  "playing", FALSE)
       ELSE RevealOutcome(revealCell(Obj(board), p.row, p.col).grid,
                          app.gameStatus, app.isFirstClick)

\* mutant: flags are refused in idle only, not after the game is over
handleCellFlagAfterGameOver(p) ==
    /\ prev' = board
    /\ op' = AppCall("handleCellFlag", <<p>>)
    /\ same' = FALSE
    /\ UNCHANGED <<draw, out, heap>>
    /\ IF app.gameStatus = "idle"
       THEN UNCHANGED <<board, app>>
       ELSE /\ board' = toggleFlag(Obj(board), p.row, p.col).grid
            /\ countFlags(board') <= MaxFlags
            /\ UNCHANGED app

handleCellFlag(p) ==
    /\ prev' = board
    /\ op' = AppCall("handleCellFlag", <<p>>)
    /\ same' = FALSE
    /\ UNCHANGED <<draw, out, heap>>
    /\ IF app.gameStatus = "won" \/ app.gameStatus = "lost" \/ app.gameStatus = "idle"
       THEN UNCHANGED <<board, app>>
       ELSE /\ board' = toggleFlag(Obj(board), p.row, p.col).grid
            /\ countFlags(board') <= MaxFlags
            /\ UNCHANGED app

\* the handlers are wired to the cells GameBoard renders
NextApp ==
    \/ resetGame
    \/ \E p \in InBounds(NumRows(board), NumCols(board)) : handleCellReveal(p)
    \/ \E p \in InBounds(NumRows(board), NumCols(board)) : handleCellFlag(p)

SpecApp == InitApp /\ [][NextApp]_vars

\* ----------------------------------------- mine generation called directly
\* generateMinePositions, createBoard, placeMines and createBoardWithMines
\* called with arguments of any kind: negative or too large mine counts,
\* degenerate boards, positions outside the board.
Drawn(kind, rows, cols, mineCount, exclude, rnd, positions) ==
    [kind |-> kind, rows |-> rows, cols |-> cols, mineCount |-> mineCount,
     exclude |-> exclude, rnd |-> rnd, positions |-> positions]

Candidates(rows, cols, excludePosition) ==
    AllPositionsFrom(0, rows, cols, excludedSetOf(rows, cols, excludePosition))

GenSizes == {d \in (0..MaxRows) \X (0..MaxCols) : d[1] * d[2] <= MaxGenCells}

InitGenerate ==
    \E d \in GenSizes, mineCount \in (-1)..MaxMineCount :
      \E e \in {<< >>} \cup {<<p>> : p \in OpPositions(d[1], d[2])} :
        /\ Len(Candidates(d[1], d[2], e)) <= MaxShuffle
        /\ \E rnd \in RandomSources(d[1], d[2], e) :
              draw = Drawn("generate", d[1], d[2], mineCount, e, rnd, << >>)
        /\ board = createEmptyBoard(d[1], d[2])

InitPlace ==
    \E d \in Sizes :
      \E l \in PositionLists(OpPositions(d[1], d[2]), MaxPlaced) :
        /\ draw = Drawn("place", d[1], d[2], 0, << >>, << >>, l)
        /\ board = createEmptyBoard(d[1], d[2])

InitGen ==
    /\ InitGenerate \/ InitPlace
    /\ prev = << >>
    /\ op = Call("given", << >>, NoArg)
    /\ same = FALSE
    /\ app = NoApp
    /\ out = NoOut
    /\ heap = NoHeap

Returned(value) == [threw |-> FALSE, value |-> value]
Thrown == [threw |-> TRUE, value |-> << >>]

Generate ==
    /\ draw.kind = "generate"
    /\ out' = Returned(generateMinePositions(draw.rows, draw.cols, draw.mineCount,
                                             draw.exclude, draw.rnd))
    /\ op' = Call("generateMinePositions", draw.exclude, NoArg)
    /\ UNCHANGED <<board, prev, same, app, draw, heap>>

\* a second call after the first, with the same arguments and a random
\* source mocked to give the same values again; out keeps both results
GenerateAgain ==
    /\ draw.kind = "generate"
    /\ Did("generateMinePositions")
    /\ out' = Returned(<<out.value,
                         generateMinePositions(draw.rows, draw.cols, draw.mineCount,
                                               draw.exclude, draw.rnd)>>)
    /\ op' = Call("generateMinePositions again", draw.exclude, NoArg)
    /\ UNCHANGED <<board, prev, same, app, draw, heap>>

Create ==
    /\ draw.kind = "generate"
    /\ board' = createBoard([rows |-> draw.rows, cols |-> draw.cols,
                             mineCount |-> draw.mineCount],
                            draw.exclude, draw.rnd)
    /\ out' = Returned(<< >>)
    /\ op' = Call("createBoard", draw.exclude, NoArg)
    /\ UNCHANGED <<prev, same, app, draw, heap>>

PlaceMines ==
    /\ draw.kind = "place"
    /\ prev' = board
    /\ IF placeMinesThrows(board, draw.positions)
       THEN out' = Thrown /\ UNCHANGED board
       ELSE out' = Returned(<< >>) /\ board' = placeMines(board, draw.positions)
    /\ op' = Call("placeMines", << >>, NoArg)
    /\ UNCHANGED <<same, app, draw, heap>>

CreateWithMines ==
    /\ draw.kind = "place"
    /\ IF placeMinesThrows(createEmptyBoard(draw.rows, draw.cols), draw.positions)
       THEN out' = Thrown /\ UNCHANGED board
       ELSE /\ out' = Returned(<< >>)
            /\ board' = createBoardWithMines(draw.rows, draw.cols, draw.positions)
    /\ op' = Call("createBoardWithMines", << >>, NoArg)
    /\ UNCHANGED <<prev, same, app, draw, heap>>

NextGen == Generate \/ GenerateAgain \/ Create \/ PlaceMines \/ CreateWithMines

SpecGen == InitGen /\ [][NextGen]_vars

\* ------------------------------------------------ the queries called directly
\* isValidPosition, getNeighbors and countAdjacentMines called with any
\* position, on the board or around it, on boards with any set of mines.
MineBoard(rows, cols, mines) ==
    [r \in 1..rows |-> [c \in 1..cols |->
        IF Pos(r - 1, c - 1) \in mines
        THEN [createEmptyCell EXCEPT !.content = MINE]
        ELSE createEmptyCell]]

\* every cell, and the ring of positions around the board
QueryPositions(rows, cols) == {Pos(r, c) : r \in (-1)..rows, c \in (-1)..cols}

InitQuery ==
    \E d \in GenSizes :
      \E mines \in SUBSET InBounds(d[1], d[2]), p \in QueryPositions(d[1], d[2]) :
        /\ board = MineBoard(d[1], d[2], mines)
        /\ draw = Drawn("query", d[1], d[2], 0, << >>, << >>, <<p>>)
        /\ prev = << >>
        /\ op = Call("given", << >>, NoArg)
        /\ same = FALSE
        /\ app = NoApp
        /\ out = NoOut
        /\ heap = NoHeap

Query(name, value) ==
    /\ out' = Returned(value)
    /\ op' = Call(name, draw.positions, NoArg)
    /\ UNCHANGED <<board, prev, same, app, draw, heap>>

ValidPosition ==
    Query("isValidPosition",
          isValidPosition(draw.positions[1].row, draw.positions[1].col,
                          draw.rows, draw.cols))

Neighbors ==
    Query("getNeighbors",
          getNeighbors(draw.positions[1].row, draw.positions[1].col,
                       draw.rows, draw.cols))

CountAdjacent ==
    Query("countAdjacentMines",
          countAdjacentMines(board, draw.positions[1].row, draw.positions[1].col))

NextQuery == ValidPosition \/ Neighbors \/ CountAdjacent

SpecQuery == InitQuery /\ [][NextQuery]_vars

\* ------------------------------------------------- vocabulary of the claims
\* What the properties speak of, stated on the board's cells directly, not
\* through the engine's own helpers.
CellsOf(grid) == InBounds(NumRows(grid), NumCols(grid))

At(grid, p) == grid[p.row + 1][p.col + 1]

Abs(x) == IF x < 0 THEN -x ELSE x

\* Chebyshev distance 1
Adjacent(p, q) ==
    /\ p # q
    /\ Abs(p.row - q.row) <= 1
    /\ Abs(p.col - q.col) <= 1

MinesOf(grid) == {p \in CellsOf(grid) : At(grid, p).content = MINE}

RevealedOf(grid) == {p \in CellsOf(grid) : At(grid, p).isRevealed}

FlaggedOf(grid) == {p \in CellsOf(grid) : At(grid, p).isFlagged}

ZerosOf(grid) == {p \in CellsOf(grid) : At(grid, p).content = 0}

\* every non-mine cell's content is its number of adjacent mines
Consistent(grid) ==
    \A p \in CellsOf(grid) \ MinesOf(grid) :
        At(grid, p).content = Cardinality({q \in MinesOf(grid) : Adjacent(p, q)})

\* the 8-connected region of zero cells that contains the zero cell p
RECURSIVE GrowZeros(_, _)
GrowZeros(grid, S) ==
    LET T == S \cup {q \in ZerosOf(grid) : \E x \in S : Adjacent(x, q)}
    IN  IF T = S THEN S ELSE GrowZeros(grid, T)

ZeroRegion(grid, p) == GrowZeros(grid, {p})

\* the cells of S and their neighbours
WithNeighbours(grid, S) == S \cup {q \in CellsOf(grid) : \E x \in S : Adjacent(x, q)}

\* grid with isRevealed set on the cells of S, nothing else changed
RevealedToo(grid, S) ==
    [r \in 1..Len(grid) |-> [c \in 1..Len(grid[r]) |->
        IF Pos(r - 1, c - 1) \in S
        THEN [grid[r][c] EXCEPT !.isRevealed = TRUE]
        ELSE grid[r][c]]]

Degenerate(grid) == NumRows(grid) = 0 \/ NumCols(grid) = 0

Target == op.pos[1]

OnCell(name) == Did(name) /\ Target \in CellsOf(prev)

\* the target of the last operation was a hidden cell without a flag
OnFreshCell(name) ==
    /\ OnCell(name)
    /\ ~At(prev, Target).isRevealed
    /\ ~At(prev, Target).isFlagged

\* grid has rows rows of cols cells
HasShape(grid, rows, cols) ==
    /\ Len(grid) = rows
    /\ \A r \in 1..Len(grid) : Len(grid[r]) = cols

\* the number of mine cells next to p
MinesAround(grid, p) == Cardinality({q \in MinesOf(grid) : Adjacent(p, q)})

\* a freshly constructed rows x cols board: everything hidden, no flag, and
\* every number the count of the mines around its cell
FreshBoard(grid, rows, cols) ==
    /\ HasShape(grid, rows, cols)
    /\ RevealedOf(grid) = {}
    /\ FlaggedOf(grid) = {}
    /\ \A p \in CellsOf(grid) \ MinesOf(grid) :
          /\ At(grid, p).content = MinesAround(grid, p)
          /\ At(grid, p).content \in 0..8

\* the position a query was asked about
Asked == draw.positions[1]

\* p comes before q when the board is read row by row, left to right
RasterBefore(p, q) == p.row < q.row \/ (p.row = q.row /\ p.col < q.col)

\* where a cell of a rows x cols board lies
OnBorder(p, rows, cols) == p.row \in {0, rows - 1} \/ p.col \in {0, cols - 1}

Corner(p, rows, cols) == p.row \in {0, rows - 1} /\ p.col \in {0, cols - 1}

RECURSIVE Factorial(_)
Factorial(n) == IF n <= 1 THEN 1 ELSE n * Factorial(n - 1)

\* the board the caller passed in, read again after the call
InputNow == View(heap.cells, heap.input)

\* the exclusion set E of a direct call: excludePosition and the cells of the
\* rows x cols board next to it; empty without an excludePosition
ExclusionOf(d) ==
    IF d.exclude = << >> THEN {}
    ELSE {d.exclude[1]} \cup {q \in InBounds(d.rows, d.cols) : Adjacent(q, d.exclude[1])}

\* rows*cols - |E|
AvailableTo(d) == d.rows * d.cols - Cardinality(ExclusionOf(d))

\* A flood fill that keeps a work list and a visited set, with no order fixed:
\* any pending position may be taken next, which covers a queue, a stack and
\* a recursion over the neighbours in any order.  The set of the boards it
\* can end with.
RECURSIVE FillResults(_, _, _)
FillResults(grid, visited, work) ==
    IF work = {} THEN {grid}
    ELSE UNION {
        LET seen == visited \cup {q}
            rest == work \ {q}
        IN  IF At(grid, q).isFlagged \/ At(grid, q).isRevealed
            THEN FillResults(grid, seen, rest)
            ELSE IF At(grid, q).content = MINE \/ At(grid, q).content > 0
            THEN FillResults(RevealedToo(grid, {q}), seen, rest)
            ELSE FillResults(RevealedToo(grid, {q}), seen,
                             rest \cup {n \in CellsOf(grid) \ seen : Adjacent(q, n)})
        : q \in work}

\* the contents of the cells, their marks left out
ContentsOf(grid) ==
    [r \in 1..Len(grid) |-> [c \in 1..Len(grid[r]) |-> grid[r][c].content]]

\* the last handler call found a game in progress or over: it came after the
\* first reveal of the game and before the next reset
InGame(name) == Did(name) /\ op.status \in {"playing", "won", "lost"}

\* the safe zone of a first click at p: p and the cells next to it
SafeZone(grid, p) == {p} \cup {q \in CellsOf(grid) : Adjacent(q, p)}

\* ------------------------------------------------------------------ claims

\* C1: in every board reachable from createBoard or createBoardWithMines by
\* revealCell, toggleFlag and revealAllMines, no cell is both flagged and
\* revealed.  (Stated as claimed; revealAllMines on a flagged mine breaks it.)
C1_NeverFlaggedAndRevealed ==
    \A p \in CellsOf(board) : ~(At(board, p).isFlagged /\ At(board, p).isRevealed)

\* C2: revealCell returns the very board it was given when the board has no
\* rows or no columns, the position is outside the board, the target cell is
\* flagged, or the target cell is already revealed.
C2_RevealNoOpSameReference ==
    (/\ Did("revealCell")
     /\ \/ Degenerate(prev)
        \/ Target \notin CellsOf(prev)
        \/ At(prev, Target).isFlagged
        \/ At(prev, Target).isRevealed)
    => (same /\ board = prev)

C2_Witness ==
    /\ OnCell("revealCell")
    /\ At(prev, Target).isFlagged
    /\ ~At(prev, Target).isRevealed
    /\ At(prev, Target).content = 0
    /\ \E q \in CellsOf(prev) : Adjacent(Target, q) /\ ~At(prev, q).isRevealed
    /\ same

\* C3: on a board of createBoardWithMines changed only by revealCell calls (so
\* without flags), revealCell on an unrevealed zero cell reveals exactly the
\* 8-connected zero region Z of that cell and the neighbours of Z, on top of
\* what was revealed; nothing else changes.
C3_FloodFillRevealsRegionAndRing ==
    (/\ OnCell("revealCell")
     /\ FlaggedOf(prev) = {}
     /\ ~At(prev, Target).isRevealed
     /\ At(prev, Target).content = 0)
    => LET Z == ZeroRegion(prev, Target)
       IN  /\ RevealedOf(board) = RevealedOf(prev) \cup WithNeighbours(prev, Z)
           /\ board = RevealedToo(prev, WithNeighbours(prev, Z))

\* a flood-fill over a region of several zero cells that stops short of a
\* mine and leaves a safe cell beyond the ring hidden
C3_Witness ==
    /\ OnCell("revealCell")
    /\ ~At(prev, Target).isRevealed
    /\ At(prev, Target).content = 0
    /\ Cardinality(ZeroRegion(prev, Target)) >= 2
    /\ MinesOf(board) # {}
    /\ \E q \in CellsOf(board) \ MinesOf(board) : ~At(board, q).isRevealed
    /\ Cardinality(RevealedOf(board)) >= Cardinality(RevealedOf(prev)) + 3

\* C4: on a board whose numbers are consistent with its mines, revealCell on a
\* non-mine cell reveals no mine, whatever is already revealed or flagged, and
\* so leaves checkGameLost as it was.
C4_RevealOfSafeCellRevealsNoMine ==
    (/\ OnCell("revealCell")
     /\ Consistent(prev)
     /\ At(prev, Target).content # MINE)
    => /\ \A m \in MinesOf(prev) : At(board, m).isRevealed = At(prev, m).isRevealed
       /\ checkGameLost(board) = checkGameLost(prev)

\* a flood-fill next to a numbered cell that borders a hidden mine, with a
\* flag standing on the board
C4_Witness ==
    /\ OnCell("revealCell")
    /\ At(prev, Target).content = 0
    /\ Cardinality(RevealedOf(board)) >= Cardinality(RevealedOf(prev)) + 3
    /\ FlaggedOf(prev) # {}
    /\ \E m \in MinesOf(board) : ~At(board, m).isRevealed
    /\ ~checkGameLost(board)

\* C5 as claimed: for every board with a mine cell m, revealCell at m returns
\* a board on which checkGameLost is true.
C5_RevealOfMineLoses ==
    (OnCell("revealCell") /\ At(prev, Target).content = MINE)
    => checkGameLost(board)

\* C5 amended: for every board with a mine cell m that is not flagged,
\* revealCell at m returns a board on which checkGameLost is true.
C5_RevealOfUnflaggedMineLoses ==
    (/\ OnCell("revealCell")
     /\ At(prev, Target).content = MINE
     /\ ~At(prev, Target).isFlagged)
    => checkGameLost(board)

C5_Witness ==
    /\ OnCell("revealCell")
    /\ At(prev, Target).content = MINE
    /\ ~At(prev, Target).isFlagged
    /\ ~checkGameLost(prev)
    /\ checkGameLost(board)

\* C6: across revealCell, toggleFlag and revealAllMines a revealed cell stays
\* revealed, and the number of revealed cells never decreases: every step of a
\* game takes the board prev to a board that keeps prev's revealed cells.
C6_RevealedStaysRevealed ==
    (Did("revealCell") \/ Did("toggleFlag") \/ Did("revealAllMines"))
    => /\ CellsOf(board) = CellsOf(prev)
       /\ RevealedOf(prev) \subseteq RevealedOf(board)
       /\ Cardinality(RevealedOf(board)) >= Cardinality(RevealedOf(prev))

\* revealAllMines acts on a board that has revealed safe cells and hidden mines
C6_Witness ==
    /\ Did("revealAllMines")
    /\ RevealedOf(prev) \ MinesOf(prev) # {}
    /\ MinesOf(prev) \ RevealedOf(prev) # {}
    /\ RevealedOf(prev) \subseteq RevealedOf(board)

\* C7: revealCell is idempotent: revealCell at (r,c) applied to the board that
\* revealCell at (r,c) returned gives back that very board.
C7_RevealIdempotent ==
    OnCell("revealCell")
    => LET again == revealCell(Obj(board), Target.row, Target.col)
       IN  again.ref = 0 /\ again.grid = board

\* the first application changed the board (a flood-fill), the second did not
C7_Witness ==
    /\ OnCell("revealCell")
    /\ ~same
    /\ Cardinality(RevealedOf(board)) >= Cardinality(RevealedOf(prev)) + 2
    /\ revealCell(Obj(board), Target.row, Target.col).ref = 0

\* C8: checkGameWon is true iff the board has a row and a column and every
\* non-mine cell is revealed; flags and revealed mines do not matter, and it
\* is false for a board with no rows or no columns.
C8_WonIffAllSafeCellsRevealed ==
    /\ checkGameWon(board) =
          (/\ NumRows(board) >= 1
           /\ NumCols(board) >= 1
           /\ \A p \in CellsOf(board) \ MinesOf(board) : At(board, p).isRevealed)
    /\ Degenerate(board) => ~checkGameWon(board)

\* a won board that keeps a hidden mine and a flag
C8_Witness ==
    /\ checkGameWon(board)
    /\ Did("revealCell")
    /\ ~checkGameWon(prev)
    /\ MinesOf(board) \ RevealedOf(board) # {}
    /\ FlaggedOf(board) # {}

\* C9: checkGameLost is true iff some cell is a mine and revealed; false for
\* an empty board and for a board where only non-mine cells are revealed.
C9_LostIffMineRevealed ==
    /\ checkGameLost(board) = (MinesOf(board) \cap RevealedOf(board) # {})
    /\ Degenerate(board) => ~checkGameLost(board)

C9_Witness ==
    /\ checkGameLost(board)
    /\ Did("revealCell")
    /\ ~checkGameLost(prev)
    /\ RevealedOf(prev) # {}

\* C10: for every config, in-bounds excludePosition p and outcome of the
\* random source, createBoard(config, p) has no mine at p nor at a neighbour
\* of p.
C10_SafeZoneHasNoMine ==
    (Did("createBoard") /\ Len(op.pos) = 1 /\ Target \in CellsOf(board))
    => \A q \in CellsOf(board) :
          (q = Target \/ Adjacent(Target, q)) => At(board, q).content # MINE

\* every cell outside the safe zone is a mine
C10_Witness ==
    /\ Did("createBoard")
    /\ Len(op.pos) = 1
    /\ Target \in CellsOf(board)
    /\ MinesOf(board) # {}
    /\ \A q \in CellsOf(board) :
          (q # Target /\ ~Adjacent(Target, q)) => At(board, q).content = MINE

\* C11: in the App the first reveal of a game (status idle), at any cell,
\* never ends in status lost: no mine is revealed, the clicked cell is
\* revealed with content 0, and the status becomes playing or won.
C11_FirstRevealNeverLoses ==
    (Did("handleCellReveal") /\ op.status = "idle")
    => /\ app.gameStatus \in {"playing", "won"}
       /\ MinesOf(board) \cap RevealedOf(board) = {}
       /\ ~checkGameLost(board)
       /\ At(board, Target).isRevealed
       /\ At(board, Target).content = 0

\* a first click on a board that got mines and is not yet won
C11_Witness ==
    /\ Did("handleCellReveal")
    /\ op.status = "idle"
    /\ MinesOf(board) # {}
    /\ app.gameStatus = "playing"
    /\ Cardinality(RevealedOf(board)) >= 2

\* C12 (as stated): for mineCount >= 0 generateMinePositions returns exactly
\* min(mineCount, rows*cols - |E|) positions, and createBoard places exactly
\* that many mines.
C12_CountIsMinOfAskedAndAvailable ==
    /\ (Did("generateMinePositions") /\ draw.mineCount >= 0)
       => Len(out.value) = Min(draw.mineCount, AvailableTo(draw))
    /\ (Did("createBoard") /\ draw.mineCount >= 0)
       => Cardinality(MinesOf(board)) = Min(draw.mineCount, AvailableTo(draw))

\* C12 (amended): for mineCount >= 0 generateMinePositions returns exactly
\* max(0, min(mineCount, rows*cols - |E|)) positions, and createBoard places
\* exactly that many mines; E can be larger than the board when
\* excludePosition lies outside it.
C12_CountIsClampedMin ==
    /\ (Did("generateMinePositions") /\ draw.mineCount >= 0)
       => Len(out.value) = Max(0, Min(draw.mineCount, AvailableTo(draw)))
    /\ (Did("createBoard") /\ draw.mineCount >= 0)
       => Cardinality(MinesOf(board)) = Max(0, Min(draw.mineCount, AvailableTo(draw)))

\* mines were asked for, and the exclusion set is larger than the board
C12_Witness ==
    /\ Did("generateMinePositions")
    /\ draw.mineCount > 0
    /\ AvailableTo(draw) < 0
    /\ out.value = << >>

\* C13: for a negative mineCount generateMinePositions returns an empty
\* sequence and createBoard returns a board without any mine.
C13_NegativeCountPlacesNoMine ==
    /\ (Did("generateMinePositions") /\ draw.mineCount < 0) => out.value = << >>
    /\ (Did("createBoard") /\ draw.mineCount < 0) => MinesOf(board) = {}

\* C14: the sequence returned by generateMinePositions has no position twice,
\* only positions inside the rows x cols board, and neither excludePosition
\* nor any of its neighbours.
C14_PositionsDistinctInsideNotExcluded ==
    Did("generateMinePositions")
    => /\ \A i, j \in 1..Len(out.value) : i # j => out.value[i] # out.value[j]
       /\ SeqToSet(out.value) \subseteq InBounds(draw.rows, draw.cols)
       /\ SeqToSet(out.value) \cap ExclusionOf(draw) = {}

\* several positions returned next to a safe zone, in shuffled order
C14_Witness ==
    /\ Did("generateMinePositions")
    /\ draw.exclude # << >>
    /\ Len(out.value) >= 2
    /\ out.value # SubSeq(Candidates(draw.rows, draw.cols, draw.exclude),
                          1, Len(out.value))

\* C15: no engine operation raises an error on any input; in particular
\* placeMines and createBoardWithMines given a position outside the board
\* return a Board.
C15_NoOperationThrows == ~out.threw

\* C16: revealAllMines(B) returns a board in which every mine cell is
\* revealed, every non-mine cell has the isRevealed it has in B, and every
\* cell has the isFlagged and the content it has in B.
C16_RevealAllMinesFrame ==
    Did("revealAllMines")
    => /\ CellsOf(board) = CellsOf(prev)
       /\ \A p \in CellsOf(prev) :
             /\ At(prev, p).content = MINE => At(board, p).isRevealed
             /\ At(prev, p).content # MINE
                => At(board, p).isRevealed = At(prev, p).isRevealed
             /\ At(board, p).isFlagged = At(prev, p).isFlagged
             /\ At(board, p).content = At(prev, p).content

\* a hidden flagged mine got revealed next to a hidden safe cell
C16_Witness ==
    /\ Did("revealAllMines")
    /\ \E p \in MinesOf(prev) : ~At(prev, p).isRevealed /\ At(prev, p).isFlagged
    /\ \E p \in CellsOf(prev) \ MinesOf(prev) : ~At(prev, p).isRevealed

\* C17: toggleFlag on a valid position whose cell is not revealed returns a
\* board in which that cell's isFlagged is inverted and nothing else differs.
C17_ToggleFlagFrame ==
    (OnCell("toggleFlag") /\ ~At(prev, Target).isRevealed)
    => /\ CellsOf(board) = CellsOf(prev)
       /\ At(board, Target).isFlagged = ~At(prev, Target).isFlagged
       /\ At(board, Target).content = At(prev, Target).content
       /\ At(board, Target).isRevealed = At(prev, Target).isRevealed
       /\ \A p \in CellsOf(prev) \ {Target} : At(board, p) = At(prev, p)

\* a flag was taken off a cell of a board with several cells
C17_Witness ==
    /\ OnCell("toggleFlag")
    /\ ~At(prev, Target).isRevealed
    /\ At(prev, Target).isFlagged
    /\ ~At(board, Target).isFlagged
    /\ Cardinality(CellsOf(prev)) >= 2

\* C18: toggleFlag returns the input board itself, with no flag changed, on
\* a board with zero rows or zero columns, for a position outside the board,
\* and for a target cell that is already revealed.
C18_ToggleFlagNoOpSameReference ==
    (/\ Did("toggleFlag")
     /\ \/ Degenerate(prev)
        \/ Target \notin CellsOf(prev)
        \/ At(prev, Target).isRevealed)
    => same /\ board = prev

\* toggleFlag was called on a revealed cell
C18_Witness ==
    /\ OnCell("toggleFlag")
    /\ At(prev, Target).isRevealed
    /\ same

\* C19: for a valid cell that is unrevealed and unflagged, toggleFlag then
\* revealCell on it leaves the cell unrevealed (the reveal changes nothing),
\* and revealCell then toggleFlag on it leaves its isFlagged false.
C19_FlagAndRevealExcludeEachOther ==
    /\ OnFreshCell("toggleFlag")
       => LET revealed == revealCell(Obj(board), Target.row, Target.col)
          IN  /\ ~At(revealed.grid, Target).isRevealed
              /\ revealed.grid = board
    /\ OnFreshCell("revealCell")
       => LET flagged == toggleFlag(Obj(board), Target.row, Target.col)
          IN  /\ ~At(flagged.grid, Target).isFlagged
              /\ flagged.grid = board

\* a hidden cell without a flag was revealed
C19_Witness ==
    /\ OnFreshCell("revealCell")
    /\ At(board, Target).isRevealed
    /\ ~At(board, Target).isFlagged

\* C20: revealCell on an unrevealed, unflagged cell that is a mine or has a
\* positive adjacency count changes exactly one thing: that cell's isRevealed
\* becomes true.
C20_RevealOfMineOrNumberRevealsOneCell ==
    (/\ OnFreshCell("revealCell")
     /\ At(prev, Target).content = MINE \/ At(prev, Target).content > 0)
    => /\ At(board, Target).isRevealed
       /\ board = RevealedToo(prev, {Target})

\* a mine was revealed next to a cell that stays hidden
C20_Witness ==
    /\ OnFreshCell("revealCell")
    /\ At(prev, Target).content = MINE
    /\ \E q \in CellsOf(board) :
          /\ Adjacent(q, Target)
          /\ ~At(board, q).isRevealed
          /\ ~At(board, q).isFlagged

\* C21: no operation modifies the board it is given: after placeMines,
\* calculateNumbers, revealCell (flood-fill included), revealAllMines or
\* toggleFlag returns, every cell of the caller's input board has the
\* content, isRevealed and isFlagged it had before the call.
C21_InputBoardNotModified ==
    (\E name \in {"placeMines", "calculateNumbers", "revealCell",
                   "revealAllMines", "toggleFlag"} : Did(name))
    => InputNow = prev

\* a flood fill revealed several cells of the returned board
C21_Witness ==
    /\ Did("revealCell")
    /\ Cardinality(RevealedOf(board) \ RevealedOf(prev)) >= 2
    /\ InputNow = prev

\* what C22 says of a construction call that returned a board
ConstructedAsAsked ==
    /\ Did("createBoard") => FreshBoard(board, draw.rows, draw.cols)
    /\ (Did("createBoardWithMines") /\ ~out.threw)
       => /\ FreshBoard(board, draw.rows, draw.cols)
          /\ MinesOf(board) = CellsOf(board) \cap SeqToSet(draw.positions)

\* C22: createBoard and createBoardWithMines return a rows x cols board in
\* which every cell is unrevealed and unflagged and every non-mine cell's
\* content is the number of mines among its neighbours (in 0..8); for
\* createBoardWithMines a cell is a mine exactly when its position is in the
\* given list, whatever the order or repetition of the list.
C22_ConstructionReturnsFreshBoard ==
    /\ Did("createBoardWithMines") => ~out.threw
    /\ ConstructedAsAsked

\* C23: calculateNumbers(B) returns a board of the same shape in which every
\* non-mine cell's content is the number of mine neighbours it has in B,
\* every mine cell is still a mine, and every cell keeps its isRevealed and
\* isFlagged; zero rows give an empty board, empty rows the same number of
\* empty rows.
C23_CalculateNumbersCountsMineNeighbours ==
    Did("calculateNumbers")
    => /\ Len(board) = Len(prev)
       /\ \A r \in 1..Len(prev) : Len(board[r]) = Len(prev[r])
       /\ \A p \in CellsOf(prev) :
             /\ At(prev, p).content = MINE => At(board, p).content = MINE
             /\ At(prev, p).content # MINE
                => At(board, p).content = MinesAround(prev, p)
             /\ At(board, p).isRevealed = At(prev, p).isRevealed
             /\ At(board, p).isFlagged = At(prev, p).isFlagged

\* a wrong number next to a mine was replaced by the count
C23_Witness ==
    /\ Did("calculateNumbers")
    /\ \E p \in CellsOf(prev) :
          /\ At(prev, p).content = 0
          /\ At(board, p).content = 1
          /\ At(board, p).isRevealed \/ At(board, p).isFlagged

\* C24: countAdjacentMines(B,row,col) returns 0 when B has zero rows or zero
\* columns or when (row,col) is outside B; otherwise the number of neighbours
\* of (row,col) whose content is mine, between 0 and 8, the cell itself not
\* counted.
C24_CountAdjacentMinesCountsNeighbours ==
    Did("countAdjacentMines")
    => IF Degenerate(board) \/ Asked \notin CellsOf(board)
       THEN out.value = 0
       ELSE /\ out.value = MinesAround(board, Asked)
            /\ out.value \in 0..8

\* a mine with mines on some sides only was asked about
C24_Witness ==
    /\ Did("countAdjacentMines")
    /\ Asked \in MinesOf(board)
    /\ out.value >= 2
    /\ \E q \in CellsOf(board) \ MinesOf(board) : Adjacent(q, Asked)

\* C25: getNeighbors(row,col,rows,cols) returns exactly the positions at
\* Chebyshev distance 1 from (row,col) that satisfy isValidPosition (0 <= row
\* < rows and 0 <= col < cols), each once, never (row,col) itself, in raster
\* order.
C25_NeighborsAreValidAdjacentInRasterOrder ==
    /\ Did("isValidPosition")
       => out.value = (/\ 0 <= Asked.row /\ Asked.row < draw.rows
                       /\ 0 <= Asked.col /\ Asked.col < draw.cols)
    /\ Did("getNeighbors")
       => /\ SeqToSet(out.value)
               = {q \in InBounds(draw.rows, draw.cols) : Adjacent(q, Asked)}
          /\ Asked \notin SeqToSet(out.value)
          /\ \A i, j \in 1..Len(out.value) :
                i < j => RasterBefore(out.value[i], out.value[j])

\* the eight neighbours of an interior cell were returned
C25_Witness ==
    /\ Did("getNeighbors")
    /\ Len(out.value) = 8

\* C26 (as stated): on every board getNeighbors returns 3 positions for a
\* corner cell, 5 for a non-corner edge cell and 8 for an interior cell.
C26_NeighbourCountsOnEveryBoard ==
    (Did("getNeighbors") /\ Asked \in InBounds(draw.rows, draw.cols))
    => Len(out.value) =
          IF Corner(Asked, draw.rows, draw.cols) THEN 3
          ELSE IF OnBorder(Asked, draw.rows, draw.cols) THEN 5
          ELSE 8

\* C26 (amended): on every board with at least two rows and two columns
\* getNeighbors returns 3 positions for a corner cell, 5 for a non-corner
\* edge cell and 8 for an interior cell.
C26_NeighbourCountsOnBoardsOfTwoByTwo ==
    (/\ Did("getNeighbors")
     /\ Asked \in InBounds(draw.rows, draw.cols)
     /\ draw.rows >= 2
     /\ draw.cols >= 2)
    => Len(out.value) =
          IF Corner(Asked, draw.rows, draw.cols) THEN 3
          ELSE IF OnBorder(Asked, draw.rows, draw.cols) THEN 5
          ELSE 8

\* a non-corner edge cell of a board with two rows was asked about
C26_Witness ==
    /\ Did("getNeighbors")
    /\ draw.rows = 2
    /\ Asked \in InBounds(draw.rows, draw.cols)
    /\ ~Corner(Asked, draw.rows, draw.cols)
    /\ Len(out.value) = 5

\* C27: countFlags(B) is the number of cells of B with isFlagged true (0 for
\* a board without cells); a toggleFlag on a valid unrevealed cell changes it
\* by exactly +1 or -1, and revealCell never changes it.
C27_CountFlagsCountsFlaggedCells ==
    /\ countFlags(board) = Cardinality(FlaggedOf(board))
    /\ (OnCell("toggleFlag") /\ ~At(prev, Target).isRevealed)
       => countFlags(board) - countFlags(prev) \in {-1, 1}
    /\ Did("revealCell") => countFlags(board) = countFlags(prev)

\* one of two flags was taken off, the other is on a revealed cell
C27_Witness ==
    /\ OnCell("toggleFlag")
    /\ countFlags(prev) = 2
    /\ countFlags(board) = 1
    /\ \E p \in FlaggedOf(board) : At(board, p).isRevealed

C29_ShuffleIsOneToOne ==
    LET candidates == Candidates(draw.rows, draw.cols, draw.exclude)
        sources == RandomSources(draw.rows, draw.cols, draw.exclude)
    IN  (Did("generateMinePositions") /\ Len(out.value) = Len(candidates))
        => /\ Cardinality(sources) = Factorial(Len(candidates))
           /\ SeqToSet(out.value) = SeqToSet(candidates)
           /\ \A rnd \in sources :
                 rnd # draw.rnd
                 => generateMinePositions(draw.rows, draw.cols, draw.mineCount,
                                          draw.exclude, rnd) # out.value

\* three candidates came back in an order that is not the order they were
\* collected in
C29_Witness ==
    /\ Did("generateMinePositions")
    /\ Len(out.value) = 3
    /\ out.value # Candidates(draw.rows, draw.cols, draw.exclude)
    /\ out.value[1] = Candidates(draw.rows, draw.cols, draw.exclude)[2]

\* C30: revealCell terminates on every finite board: during one top-level
\* call each cell changes from unrevealed to revealed at most once, and the
\* number of recursive invocations that are not no-ops is at most rows x
\* cols. Every invocation that is not a no-op makes one copy of the board
\* it was given, so the returned object's ref counts those invocations.
C30_RevealCellInvocationsBounded ==
    Did("revealCell")
    => LET returned == revealCell(Obj(prev), Target.row, Target.col)
       IN  /\ returned.grid = board
           /\ returned.ref = Cardinality(RevealedOf(board) \ RevealedOf(prev))
           /\ returned.ref <= NumRows(prev) * NumCols(prev)

\* a flood fill over four cells or more
C30_Witness ==
    /\ Did("revealCell")
    /\ revealCell(Obj(prev), Target.row, Target.col).ref >= 4
    /\ RevealedOf(board) # CellsOf(board)

\* C31: the board produced by revealCell does not depend on the order in
\* which neighbours are visited: a flood fill that visits the neighbours in
\* any other order, or iteratively with a queue or a stack and a visited set,
\* ends with the same revealed set as the recursive raster-order flood fill,
\* on every board, boards with flagged and already revealed cells included.
C31_FloodFillOrderDoesNotMatter ==
    OnCell("revealCell") => FillResults(prev, {}, {Target}) = {board}

\* a flood fill from a zero cell over three cells or more, on a board with a
\* flag and a revealed cell, that left a cell without a flag hidden
C31_Witness ==
    /\ OnFreshCell("revealCell")
    /\ At(prev, Target).content = 0
    /\ Cardinality(RevealedOf(board) \ RevealedOf(prev)) >= 3
    /\ FlaggedOf(prev) # {}
    /\ RevealedOf(prev) # {}
    /\ CellsOf(board) \ (RevealedOf(board) \cup FlaggedOf(board)) # {}

\* C32: in the App, between the first reveal of a game and the next reset, no
\* cell's content ever changes: mines are placed exactly once, and in every
\* reachable state every non-mine cell's content equals the number of mines
\* among its neighbours.
C32_ContentsFixedAfterFirstReveal ==
    /\ Consistent(board)
    /\ (InGame("handleCellReveal") \/ InGame("handleCellFlag"))
       => ContentsOf(board) = ContentsOf(prev)

\* a reveal in a game in progress, on a board with mines and a flag, that
\* revealed a cell
C32_Witness ==
    /\ InGame("handleCellReveal")
    /\ op.status = "playing"
    /\ MinesOf(board) # {}
    /\ FlaggedOf(board) # {}
    /\ RevealedOf(board) # RevealedOf(prev)

\* C33: in every reachable App state the status agrees with the board:
\* status playing implies no mine is revealed and some non-mine cell is
\* unrevealed; status won implies every non-mine cell is revealed and no mine
\* is revealed; status lost implies every mine cell is revealed. checkGameWon
\* and checkGameLost are never both true of the App's board.
C33_StatusAgreesWithBoard ==
    LET safe == CellsOf(board) \ MinesOf(board)
    IN  /\ app.gameStatus = "playing"
           => /\ MinesOf(board) \cap RevealedOf(board) = {}
              /\ safe \ RevealedOf(board) # {}
        /\ app.gameStatus = "won"
           => /\ safe \subseteq RevealedOf(board)
              /\ MinesOf(board) \cap RevealedOf(board) = {}
        /\ app.gameStatus = "lost" => MinesOf(board) \subseteq RevealedOf(board)
        /\ ~(checkGameWon(board) /\ checkGameLost(board))

\* a lost game with two mines or more, one of them flagged, and a safe cell
\* still hidden
C33_Witness ==
    /\ app.gameStatus = "lost"
    /\ Did("handleCellReveal")
    /\ op.status = "playing"
    /\ Cardinality(MinesOf(board)) >= 2
    /\ MinesOf(board) \cap FlaggedOf(board) # {}
    /\ CellsOf(board) \ RevealedOf(board) # {}

\* C34: in the App, once the status is won or lost, every reveal action and
\* every flag action leaves both the board and the status unchanged; the only
\* action that leaves won or lost is reset, which leads to idle.
C34_FinishedGameIsFrozenUntilReset ==
    /\ ((Did("handleCellReveal") \/ Did("handleCellFlag"))
        /\ op.status \in {"won", "lost"})
       => board = prev /\ app.gameStatus = op.status
    /\ (Did("resetGame") /\ op.status \in {"won", "lost"})
       => app.gameStatus = "idle"
    /\ (op.name \in {"handleCellReveal", "handleCellFlag", "resetGame"}
        /\ op.status \in {"won", "lost"}
        /\ app.gameStatus # op.status)
       => Did("resetGame")

\* a flag action on a hidden cell without a flag of a lost game, which the
\* engine would have flagged
C34_Witness ==
    /\ Did("handleCellFlag")
    /\ op.status = "lost"
    /\ ~At(board, Target).isRevealed
    /\ FlaggedOf(board) = {}

\* C35: whenever the App status is idle (at start and after a reset from any
\* state), the board is the rows x cols empty board: every cell has content 0
\* and is unrevealed and unflagged; a flag action in idle changes nothing, and
\* the next reveal action generates a new mine placement: it leaves idle with
\* the mines createBoard draws for the clicked cell, the asked number or as
\* many as there are cells outside the safe zone, none of them inside it.
C35_IdleBoardIsEmpty ==
    /\ app.gameStatus = "idle"
       => /\ HasShape(board, app.config.rows, app.config.cols)
          /\ \A p \in CellsOf(board) :
                /\ At(board, p).content = 0
                /\ ~At(board, p).isRevealed
                /\ ~At(board, p).isFlagged
          /\ app.isFirstClick
    /\ (Did("handleCellFlag") /\ op.status = "idle")
       => board = prev /\ app.gameStatus = "idle"
    /\ (Did("handleCellReveal") /\ op.status = "idle")
       => /\ app.gameStatus # "idle"
          /\ MinesOf(prev) = {}
          /\ MinesOf(board) \cap SafeZone(board, Target) = {}
          /\ Cardinality(MinesOf(board))
               = Min(app.config.mineCount,
                     Cardinality(CellsOf(board) \ SafeZone(board, Target)))

\* the first reveal of a game drew two mines or more and the game goes on
C35_Witness ==
    /\ Did("handleCellReveal")
    /\ op.status = "idle"
    /\ app.gameStatus = "playing"
    /\ Cardinality(MinesOf(board)) >= 2
    /\ Cardinality(MinesOf(board)) = app.config.mineCount

\* C36: revealCell, including its flood fill, never changes any cell's
\* content or isFlagged and never reveals a flagged cell: every cell that is
\* flagged and unrevealed before the call is flagged and unrevealed after it,
\* also when it lies inside or next to the zero region being revealed.
C36_RevealCellKeepsContentsAndFlags ==
    Did("revealCell")
    => /\ ContentsOf(board) = ContentsOf(prev)
       /\ FlaggedOf(board) = FlaggedOf(prev)
       /\ \A p \in FlaggedOf(prev) \ RevealedOf(prev) : ~At(board, p).isRevealed

\* a flood fill that revealed a neighbour of a flagged zero cell and a
\* neighbour of a flagged number cell
C36_Witness ==
    /\ OnFreshCell("revealCell")
    /\ At(prev, Target).content = 0
    /\ \E p \in FlaggedOf(prev) \cap ZerosOf(prev) :
          \E q \in RevealedOf(board) \ RevealedOf(prev) : Adjacent(p, q)
    /\ \E p \in FlaggedOf(prev) \ ZerosOf(prev) :
          \E q \in RevealedOf(board) \ RevealedOf(prev) : Adjacent(p, q)

\* C37: in every board reachable from a freshly constructed board through
\* revealCell and toggleFlag calls only, checkGameWon is false while any
\* non-mine cell is flagged: a flag on a safe cell has to be removed and the
\* cell revealed before the game can be won.
C37_NoWinWithFlagOnSafeCell ==
    FlaggedOf(board) \ MinesOf(board) # {} => ~checkGameWon(board)

\* a flag on the only safe cell still hidden, on a board with a mine
C37_Witness ==
    /\ Did("revealCell")
    /\ MinesOf(board) # {}
    /\ FlaggedOf(board) \ MinesOf(board) # {}
    /\ CellsOf(board) \ (MinesOf(board) \cup RevealedOf(board)) = FlaggedOf(board)
    /\ Cardinality(RevealedOf(board)) >= 2

\* C38: for every board B, checkGameWon(revealAllMines(B)) equals
\* checkGameWon(B), and checkGameLost(revealAllMines(B)) is true exactly when
\* B contains at least one mine cell.
C38_RevealAllMinesKeepsWonAndLosesOnMines ==
    Did("revealAllMines")
    => /\ checkGameWon(board) = checkGameWon(prev)
       /\ checkGameLost(board) = (MinesOf(prev) # {})

\* a board with every safe cell revealed and a hidden mine: won before the
\* call, won and lost after it
C38_Witness ==
    /\ Did("revealAllMines")
    /\ checkGameWon(prev)
    /\ ~checkGameLost(prev)
    /\ MinesOf(prev) # {}
    /\ CellsOf(prev) \ MinesOf(prev) # {}
    /\ checkGameLost(board)

\* C39: toggleFlag is its own inverse: for every board B and every position
\* (r,c), toggleFlag applied twice at (r,c) yields a board equal to B cell
\* for cell.
C39_ToggleFlagTwiceIsIdentity ==
    Did("toggleFlag")
    => toggleFlag(Obj(board), Target.row, Target.col).grid = prev

\* the first call took a flag off a hidden cell, on a board with another flag
C39_Witness ==
    /\ OnCell("toggleFlag")
    /\ At(prev, Target).isFlagged
    /\ ~At(board, Target).isFlagged
    /\ FlaggedOf(board) # {}
    /\ toggleFlag(Obj(board), Target.row, Target.col).grid # board

====
